---- MODULE Spec2Model ----
(***************************************************************************)
(* Model of the foundation module's in-memory user service                 *)
(* (modules/foundation: models.go, errors.go, service.go).                 *)
(*                                                                         *)
(* Strings that the code inspects character by character (emails) are      *)
(* sequences of one-character strings; names and ids are only compared     *)
(* for equality and with "", so they are TLA+ strings.                     *)
(* Each goroutine calling the service is a process p \in Procs; a call is  *)
(* split exactly at the points where it acquires the sync.RWMutex, so the  *)
(* interleavings of the model are the interleavings the lock allows.       *)
(***************************************************************************)
EXTENDS Integers, Sequences, FiniteSets, TLC

\* ------------------------------------------------------------------ bounds
NumProcs == 2      \* goroutines calling the service, one call each
MaxClock == 1      \* largest reading of the wall clock
MaxLen == 5        \* longest string handed to isValidEmail on its own

Procs == 1..NumProcs

\* ------------------------------------------------------- errors (errors.go)
ErrorTypeValidation == "VALIDATION_ERROR"
ErrorTypeNotFound == "NOT_FOUND_ERROR"
ErrorTypeConflict == "CONFLICT_ERROR"
ErrorTypeInternal == "INTERNAL_ERROR"

\* a nil error
NoError == [type |-> "", message |-> "", field |-> ""]

NewValidationError(field, message) ==
    [type |-> ErrorTypeValidation, message |-> message, field |-> field]

NewNotFoundError(resource, id) ==
    [type |-> ErrorTypeNotFound,
     message |-> resource \o " with id '" \o id \o "' not found",
     field |-> ""]

NewConflictError(message) ==
    [type |-> ErrorTypeConflict, message |-> message, field |-> ""]

\* ------------------------------------------------------- User (models.go)
\* the zero User; stands for a nil *User in results
NoUser == [id |-> "", name |-> "", email |-> <<>>, created_at |-> 0, updated_at |-> 0]

\* first '@' scan of isValidEmail: the 0-based index of the single '@',
\* -1 when there is none, -2 when a second '@' makes the function return false
RECURSIVE AtIndexScan(_, _, _)
AtIndexScan(email, i, atIndex) ==
    IF i >= Len(email) THEN atIndex
    ELSE IF email[i + 1] = "@"
         THEN IF atIndex # -1 THEN -2 ELSE AtIndexScan(email, i + 1, i)
         ELSE AtIndexScan(email, i + 1, atIndex)

\* second loop that also accepts a '.' in the last position
RECURSIVE DotScanToEnd(_, _)
DotScanToEnd(email, i) ==
    IF i >= Len(email) THEN FALSE
    ELSE IF email[i + 1] = "." THEN TRUE
    ELSE DotScanToEnd(email, i + 1)

\* second loop of isValidEmail: a '.' at 0-based index >= i that is not last
RECURSIVE DotScan(_, _)
DotScan(email, i) ==
    IF i >= Len(email) THEN FALSE
    ELSE IF email[i + 1] = "." /\ i < Len(email) - 1 THEN TRUE
    ELSE DotScan(email, i + 1)

isValidEmail(email) ==
    LET atIndex == AtIndexScan(email, 0, -1)
    IN  IF atIndex = -2 THEN FALSE
        ELSE IF atIndex = -1 \/ atIndex = 0 \/ atIndex = Len(email) - 1 THEN FALSE
        ELSE DotScan(email, atIndex + 1)

\* Validate without its last check
ValidateSkipFormat(u) ==
    IF u.name = "" THEN NewValidationError("name", "name cannot be empty")
    ELSE IF u.email = <<>> THEN NewValidationError("email", "email cannot be empty")
    ELSE NoError

\* Validate without its first check
ValidateSkipName(u) ==
    IF u.email = <<>> THEN NewValidationError("email", "email cannot be empty")
    ELSE IF ~isValidEmail(u.email) THEN NewValidationError("email", "email format is invalid")
    ELSE NoError

Validate(u) ==
    IF u.name = "" THEN NewValidationError("name", "name cannot be empty")
    ELSE IF u.email = <<>> THEN NewValidationError("email", "email cannot be empty")
    ELSE IF ~isValidEmail(u.email) THEN NewValidationError("email", "email format is invalid")
    ELSE NoError

\* NewUser that leaves ID at its zero value
NewUserBlankID(name, email, id, t) ==
    [id |-> "", name |-> name, email |-> email, created_at |-> t, updated_at |-> t]

\* NewUser(name, email) with the id generateID() returned and the reading of
\* time.Now()
\* NewUser that reads the clock once per timestamp
NewUserStampsTwice(name, email, id, t) ==
    [id |-> id, name |-> name, email |-> email, created_at |-> t, updated_at |-> t + 1]

NewUser(name, email, id, t) ==
    [id |-> id, name |-> name, email |-> email, created_at |-> t, updated_at |-> t]

\* Update that applies the supplied fields without validating them first
UpdateUnchecked(u, name, email, t) ==
    [u EXCEPT !.name = IF name # "" THEN name ELSE @,
              !.email = IF email # <<>> THEN email ELSE @,
              !.updated_at = t]

\* Update that applies the supplied fields and leaves the timestamp alone
UpdateKeepsStamp(u, name, email, t) ==
    LET temp == [NoUser EXCEPT !.name = name, !.email = email]
    IN  IF Validate(temp) # NoError THEN u
        ELSE [u EXCEPT !.name = IF name # "" THEN name ELSE @,
                       !.email = IF email # <<>> THEN email ELSE @]

\* Update that stamps both timestamps
UpdateRestamps(u, name, email, t) ==
    LET temp == [NoUser EXCEPT !.name = name, !.email = email]
    IN  IF Validate(temp) # NoError THEN u
        ELSE [u EXCEPT !.name = IF name # "" THEN name ELSE @,
                       !.email = IF email # <<>> THEN email ELSE @,
                       !.created_at = t,
                       !.updated_at = t]

\* Update that stamps the record even when it rejects the supplied fields
UpdateTouches(u, name, email, t) ==
    LET temp == [NoUser EXCEPT !.name = name, !.email = email]
    IN  IF Validate(temp) # NoError THEN [u EXCEPT !.updated_at = t]
        ELSE [u EXCEPT !.name = IF name # "" THEN name ELSE @,
                       !.email = IF email # <<>> THEN email ELSE @,
                       !.updated_at = t]

\* Update reads the clock only when the supplied values pass Validate
UpdateReadsClock(name, email) ==
    Validate([NoUser EXCEPT !.name = name, !.email = email]) = NoError

\* (u *User).Update(name, email) at clock reading t
Update(u, name, email, t) ==
    LET temp == [NoUser EXCEPT !.name = name, !.email = email]
    IN  IF Validate(temp) # NoError THEN u
        ELSE [u EXCEPT !.name = IF name # "" THEN name ELSE @,
                       !.email = IF email # <<>> THEN email ELSE @,
                       !.updated_at = t]

\* a generator whose tokens repeat from the fifth on
generateIDRepeating(k) == "id" \o ToString(IF k > 4 THEN 4 ELSE k)

\* generateID(): the k-th token read from crypto/rand, formatted with %x.
\* 64 random bits are modelled as never repeating (spec section 6: the
\* generator's tokens are unique), so the k-th token is named by k.
generateID(k) == "id" \o ToString(k)

\* --------------------------------------------------------- input alphabet
JohnEmail == <<"j","o","h","n",".","d","o","e","@","e","x","a","m","p","l","e",".","c","o","m">>
JaneEmail == <<"j","a","n","e",".","s","m","i","t","h","@","e","x","a","m","p","l","e",".","c","o","m">>
BobEmail == <<"b","o","b",".","j","o","h","n","s","o","n","@","e","x","a","m","p","l","e",".","c","o","m">>
AliceEmail == <<"a","l","i","c","e","@","e","x","a","m","p","l","e",".","c","o","m">>
\* the malformed examples of the tests and the spec
BadNoAt == <<"i","n","v","a","l","i","d","-","e","m","a","i","l">>
BadAtLast == <<"t","e","s","t","@">>
BadAtFirst == <<"@","e","x","a","m","p","l","e",".","c","o","m">>
BadNoDot == <<"t","e","s","t","@","e","x","a","m","p","l","e">>
BadEmails == {BadNoAt, BadAtLast, BadAtFirst, BadNoDot}

\* a fresh valid address per process, u<letter>@x.y
Letters == <<"a", "b", "c", "d", "e", "f">>
FreshEmail(p) == <<"u", Letters[p], "@", "x", ".", "y">>
FreshEmails == {FreshEmail(p) : p \in Procs}

\* inputs the calls of the general specification draw from
Names == {"", "Alice"}
CarolEmail == <<"c","@","d",".","e">>
InputEmails == {<<>>, AliceEmail, JaneEmail, BadNoAt}
CreateEmails == InputEmails \cup {CarolEmail}
InputIDs == {"id1", "id4"}
UpdateIDs == {"id1", "id4"}

\* ------------------------------------------------------------------- state
VARIABLES
    users,      \* s.users: id -> the User the map entry points to
    mutex,      \* s.mutex: the goroutine holding Lock (at most one), those holding RLock
    now,        \* the last reading of time.Now(); the clock never runs backwards
    issued,     \* how many tokens generateID has produced
    pc,         \* where each goroutine is in its call
    op,         \* the call's arguments
    cand,       \* CreateUser's local variable user
    res,        \* what the call returned
    returned,   \* ids returned by successful CreateUser calls so far
    probe,      \* a direct call of isValidEmail: its argument and its result
    service,    \* UserHandler.service: which UserService the handler calls
    req,        \* per goroutine, the HTTP request it serves (NoRequest: none)
    resp        \* per goroutine, the HTTP response written (NoResponse: none)

vars == <<users, mutex, now, issued, pc, op, cand, res, returned, probe,
          service, req, resp>>

NoOp == [kind |-> "", id |-> "", name |-> "", email |-> <<>>]
NoResult == [err |-> NoError, user |-> NoUser, list |-> <<>>]
NoProbe == [email |-> <<>>, called |-> FALSE, valid |-> FALSE]

\* an http.Request body: whether it is one well-formed JSON value, and the
\* string members of that object
NoBody == [wellformed |-> FALSE, name |-> "", email |-> <<>>, members |-> {}]
NoRequest == [method |-> "", path |-> <<>>, body |-> NoBody]

\* what a handler wrote to its http.ResponseWriter: status 0 is "nothing yet";
\* error holds the members of the "error" object of a JSON error body
NoMembers == [k \in {} |-> ""]
NoResponse ==
    [status |-> 0, contentType |-> "", kind |-> "", error |-> NoMembers,
     user |-> NoUser, list |-> <<>>, text |-> ""]

\* seeding with users that all carry the same id
seedDataOneKey ==
    LET john == NewUser("John Doe", JohnEmail, generateID(1), 0)
        jane == NewUser("Jane Smith", JaneEmail, generateID(1), 0)
        bob == NewUser("Bob Johnson", BobEmail, generateID(1), 0)
    IN  (john.id :> john) @@ (jane.id :> jane) @@ (bob.id :> bob)

\* NewInMemoryUserService: the empty map, then seedData
seedData ==
    LET john == NewUser("John Doe", JohnEmail, generateID(1), 0)
        jane == NewUser("Jane Smith", JaneEmail, generateID(2), 0)
        bob == NewUser("Bob Johnson", BobEmail, generateID(3), 0)
    IN  (john.id :> john) @@ (jane.id :> jane) @@ (bob.id :> bob)

NewInMemoryUserService ==
    /\ users = seedData
    /\ mutex = [writer |-> {}, readers |-> {}]
    /\ issued = 3

Init ==
    /\ NewInMemoryUserService
    /\ now = 0
    /\ pc = [p \in Procs |-> "idle"]
    /\ op = [p \in Procs |-> NoOp]
    /\ cand = [p \in Procs |-> NoUser]
    /\ res = [p \in Procs |-> NoResult]
    /\ returned = {}
    /\ probe = NoProbe
    /\ service = "InMemoryUserService"
    /\ req = [p \in Procs |-> NoRequest]
    /\ resp = [p \in Procs |-> NoResponse]

\* a clock whose readings are not ordered
NowUnordered(t) ==
    /\ t \in 0..MaxClock
    /\ now' = t

\* time.Now() returns t: any reading not before the last one
Now(t) ==
    /\ t \in now..MaxClock
    /\ now' = t

\* ------------------------------------------------------------ sync.RWMutex
RLock(p) ==
    /\ mutex.writer = {}
    /\ mutex' = [mutex EXCEPT !.readers = @ \cup {p}]

RUnlock(p) == mutex' = [mutex EXCEPT !.readers = @ \ {p}]

Lock(p) ==
    /\ mutex.writer = {}
    /\ mutex.readers = {}
    /\ mutex' = [mutex EXCEPT !.writer = {p}]

Unlock(p) == mutex' = [mutex EXCEPT !.writer = {}]

\* a goroutine enters a service method and gets past the method's first
\* lock acquisition (a goroutine blocked there has not touched any state)
Call(p, kind, id, name, email, first) ==
    /\ pc[p] = "idle"
    /\ op' = [op EXCEPT ![p] = [kind |-> kind, id |-> id, name |-> name, email |-> email]]
    /\ pc' = [pc EXCEPT ![p] = first]
    /\ UNCHANGED <<users, now, issued, cand, res, returned, probe, service, req, resp>>

\* the method returns to its caller
Finish(p, err, user, list) ==
    /\ res' = [res EXCEPT ![p] = [err |-> err, user |-> user, list |-> list]]
    /\ pc' = [pc EXCEPT ![p] = "done"]

\* ---------------------------------------------------------------- GetUsers
GetUsersCall(p) ==
    /\ Call(p, "GetUsers", "", "", <<>>, "list_read")
    /\ RLock(p)


\* the orders in which a range loop may visit the keys of a map: Go leaves the
\* order unspecified
RangeOrders(keys) ==
    {o \in [1..Cardinality(keys) -> keys] : \A i, j \in DOMAIN o : i # j => o[i] # o[j]}

\* a slice made with a length instead of a capacity: zero Users come first
CopyUsersPadded(us, o) == [i \in DOMAIN o |-> NoUser] \o [i \in DOMAIN o |-> us[o[i]]]

\* the slice the loop of GetUsers appends to, visiting the keys in order o
CopyUsers(us, o) == [i \in DOMAIN o |-> us[o[i]]]

GetUsers(p) ==
    /\ pc[p] = "list_read"
    /\ \E o \in RangeOrders(DOMAIN users) :
          Finish(p, NoError, NoUser, CopyUsers(users, o))
    /\ RUnlock(p)
    /\ UNCHANGED <<users, now, issued, op, cand, returned, probe, service, req, resp>>

\* ------------------------------------------------------------- GetUserByID
GetUserByIDCall(p, id) ==
    /\ Call(p, "GetUserByID", id, "", <<>>, "get_read")
    /\ RLock(p)


\* GetUserByID without the existence check
GetUserByIDNoCheck(p) ==
    /\ pc[p] = "get_read"
    /\ IF op[p].id \notin DOMAIN users
       THEN Finish(p, NoError, NoUser, <<>>)
       ELSE Finish(p, NoError, users[op[p].id], <<>>)
    /\ RUnlock(p)
    /\ UNCHANGED <<users, now, issued, op, cand, returned, probe, service, req, resp>>

GetUserByID(p) ==
    /\ pc[p] = "get_read"
    /\ IF op[p].id \notin DOMAIN users
       THEN Finish(p, NewNotFoundError("user", op[p].id), NoUser, <<>>)
       ELSE Finish(p, NoError, users[op[p].id], <<>>)
    /\ RUnlock(p)
    /\ UNCHANGED <<users, now, issued, op, cand, returned, probe, service, req, resp>>

\* -------------------------------------------------------------- CreateUser
\* a scan that compares the email with the map key instead of user.Email
\* a scan that never finds the address
checkEmailExistsNever(us, email) == NoError

checkEmailExistsByKey(us, email) ==
    IF \E id \in DOMAIN us : <<id>> = email
    THEN NewConflictError("email already exists")
    ELSE NoError

checkEmailExists(us, email) ==
    IF \E id \in DOMAIN us : us[id].email = email
    THEN NewConflictError("email already exists")
    ELSE NoError

\* CreateUser enters checkEmailExists, which takes the read lock ...
CreateUserCall(p, name, email) ==
    /\ Call(p, "CreateUser", "", name, email, "create_scan")
    /\ RLock(p)


\* a scan that returns without releasing the read lock
CreateUserScanKeepsRLock(p) ==
    /\ pc[p] = "create_scan"
    /\ LET err == checkEmailExists(users, op[p].email)
       IN  IF err # NoError
           THEN Finish(p, err, NoUser, <<>>)
           ELSE /\ pc' = [pc EXCEPT ![p] = "create_new"]
                /\ UNCHANGED res
    /\ UNCHANGED <<users, mutex, now, issued, op, cand, returned, probe, service, req, resp>>

\* ... scans the map and releases the read lock on return
CreateUserScan(p) ==
    /\ pc[p] = "create_scan"
    /\ LET err == checkEmailExists(users, op[p].email)
       IN  IF err # NoError
           THEN Finish(p, err, NoUser, <<>>)
           ELSE /\ pc' = [pc EXCEPT ![p] = "create_new"]
                /\ UNCHANGED res
    /\ RUnlock(p)
    /\ UNCHANGED <<users, now, issued, op, cand, returned, probe, service, req, resp>>

\* NewUser and Validate, outside any lock
CreateUserNew(p) ==
    /\ pc[p] = "create_new"
    /\ \E t \in 0..MaxClock :
       /\ Now(t)
       /\ LET user == NewUser(op[p].name, op[p].email, generateID(issued + 1), t)
              err == Validate(user)
          IN  IF err # NoError
              THEN /\ Finish(p, err, NoUser, <<>>)
                   /\ UNCHANGED cand
              ELSE /\ cand' = [cand EXCEPT ![p] = user]
                   /\ pc' = [pc EXCEPT ![p] = "create_lock"]
                   /\ UNCHANGED res
    /\ issued' = issued + 1
    /\ UNCHANGED <<users, mutex, op, returned, probe, service, req, resp>>

CreateUserLock(p) ==
    /\ pc[p] = "create_lock"
    /\ Lock(p)
    /\ pc' = [pc EXCEPT ![p] = "create_insert"]
    /\ UNCHANGED <<users, now, issued, op, cand, res, returned, probe, service, req, resp>>

\* s.users[user.ID] = user, the copy is returned and the lock released
CreateUserInsert(p) ==
    /\ pc[p] = "create_insert"
    /\ users' = [id \in DOMAIN users \cup {cand[p].id} |->
                    IF id = cand[p].id THEN cand[p] ELSE users[id]]
    /\ Finish(p, NoError, cand[p], <<>>)
    /\ returned' = returned \cup {cand[p].id}
    /\ Unlock(p)
    /\ UNCHANGED <<now, issued, op, cand, probe, service, req, resp>>

\* -------------------------------------------------------------- UpdateUser
\* UpdateUser entering under the read lock
UpdateUserCallRLock(p, id, name, email) ==
    /\ Call(p, "UpdateUser", id, name, email, "update_body")
    /\ RLock(p)

UpdateUserCall(p, id, name, email) ==
    /\ Call(p, "UpdateUser", id, name, email, "update_body")
    /\ Lock(p)


\* the duplicate scan of UpdateUser
\* conflict loop that compares against every record, the updated one included
EmailTakenByAnyone(us, id, email) ==
    /\ email # <<>>
    /\ \E k \in DOMAIN us : us[k].email = email

EmailTakenByOther(us, id, email) ==
    /\ email # <<>>
    /\ email # us[id].email
    /\ \E k \in DOMAIN us : us[k].id # id /\ us[k].email = email

UpdateUser(p) ==
    /\ pc[p] = "update_body"
    /\ LET id == op[p].id
       IN  IF id \notin DOMAIN users
           THEN /\ Finish(p, NewNotFoundError("user", id), NoUser, <<>>)
                /\ UNCHANGED <<users, now>>
           ELSE IF EmailTakenByOther(users, id, op[p].email)
           THEN /\ Finish(p, NewConflictError("email already exists"), NoUser, <<>>)
                /\ UNCHANGED <<users, now>>
           ELSE \E t \in 0..MaxClock :
                /\ IF UpdateReadsClock(op[p].name, op[p].email)
                   THEN Now(t)
                   ELSE t = now /\ UNCHANGED now
                /\ LET user == Update(users[id], op[p].name, op[p].email, t)
                       err == Validate(user)
                   IN  \* the record is changed in place before it is validated
                       /\ users' = [users EXCEPT ![id] = user]
                       /\ IF err # NoError
                          THEN Finish(p, err, NoUser, <<>>)
                          ELSE Finish(p, NoError, user, <<>>)
    /\ Unlock(p)
    /\ UNCHANGED <<issued, op, cand, returned, probe, service, req, resp>>

\* -------------------------------------------------------------- DeleteUser
DeleteUserCall(p, id) ==
    /\ Call(p, "DeleteUser", id, "", <<>>, "delete_body")
    /\ Lock(p)


\* DeleteUser that reports success without removing the entry
DeleteUserKeeps(p) ==
    /\ pc[p] = "delete_body"
    /\ IF op[p].id \notin DOMAIN users
       THEN Finish(p, NewNotFoundError("user", op[p].id), NoUser, <<>>)
       ELSE Finish(p, NoError, NoUser, <<>>)
    /\ UNCHANGED users
    /\ Unlock(p)
    /\ UNCHANGED <<now, issued, op, cand, returned, probe, service, req, resp>>

DeleteUser(p) ==
    /\ pc[p] = "delete_body"
    /\ IF op[p].id \notin DOMAIN users
       THEN /\ Finish(p, NewNotFoundError("user", op[p].id), NoUser, <<>>)
            /\ UNCHANGED users
       ELSE /\ users' = [id \in DOMAIN users \ {op[p].id} |-> users[id]]
            /\ Finish(p, NoError, NoUser, <<>>)
    /\ Unlock(p)
    /\ UNCHANGED <<now, issued, op, cand, returned, probe, service, req, resp>>

Next ==
    \/ \E p \in Procs : GetUsersCall(p)
    \/ \E p \in Procs : GetUsers(p)
    \/ \E p \in Procs, id \in InputIDs : GetUserByIDCall(p, id)
    \/ \E p \in Procs : GetUserByID(p)
    \/ \E p \in Procs, name \in Names, email \in CreateEmails :
          CreateUserCall(p, name, email)
    \/ \E p \in Procs : CreateUserScan(p)
    \/ \E p \in Procs : CreateUserNew(p)
    \/ \E p \in Procs : CreateUserLock(p)
    \/ \E p \in Procs : CreateUserInsert(p)
    \/ \E p \in Procs, id \in UpdateIDs, name \in Names, email \in InputEmails :
          UpdateUserCall(p, id, name, email)
    \/ \E p \in Procs : UpdateUser(p)
    \/ \E p \in Procs, id \in InputIDs : DeleteUserCall(p, id)
    \/ \E p \in Procs : DeleteUser(p)

Spec == Init /\ [][Next]_vars

TypeOK ==
    /\ \A id \in DOMAIN users : users[id].id = id
    /\ mutex.writer \subseteq Procs /\ Cardinality(mutex.writer) <= 1
    /\ mutex.writer # {} => mutex.readers = {}
    /\ mutex.readers \subseteq Procs
    /\ now \in 0..MaxClock

\* ------------------------------------------- creates-only specification
\* Every goroutine calls CreateUser once, with a non-empty name and one of
\* the fresh valid addresses; the calls overlap in every way the lock allows.
NextCreates ==
    \/ \E p \in Procs, name \in Names \ {""}, email \in FreshEmails :
          CreateUserCall(p, name, email)
    \/ \E p \in Procs : CreateUserScan(p)
    \/ \E p \in Procs : CreateUserNew(p)
    \/ \E p \in Procs : CreateUserLock(p)
    \/ \E p \in Procs : CreateUserInsert(p)

SpecCreates == Init /\ [][NextCreates]_vars


\* ------------------------------------- creates that overlap no other write
\* goroutine p is inside a call of one of the kinds and has not returned
Inside(p, kinds) == op[p].kind \in kinds /\ pc[p] # "done"

\* The callers serialise their writes the way a single client does: CreateUser
\* is entered only while no other CreateUser or UpdateUser is in progress, and
\* UpdateUser only while no CreateUser is; reads and deletes overlap freely.
CreateUserCallAlone(p, name, email) ==
    /\ \A q \in Procs \ {p} : ~Inside(q, {"CreateUser", "UpdateUser"})
    /\ CreateUserCall(p, name, email)

UpdateUserCallAlone(p, id, name, email) ==
    /\ \A q \in Procs \ {p} : ~Inside(q, {"CreateUser"})
    /\ UpdateUserCall(p, id, name, email)

NextSequential ==
    \/ \E p \in Procs : GetUsersCall(p)
    \/ \E p \in Procs : GetUsers(p)
    \/ \E p \in Procs, id \in InputIDs : GetUserByIDCall(p, id)
    \/ \E p \in Procs : GetUserByID(p)
    \/ \E p \in Procs, name \in Names, email \in CreateEmails :
          CreateUserCallAlone(p, name, email)
    \/ \E p \in Procs : CreateUserScan(p)
    \/ \E p \in Procs : CreateUserNew(p)
    \/ \E p \in Procs : CreateUserLock(p)
    \/ \E p \in Procs : CreateUserInsert(p)
    \/ \E p \in Procs, id \in UpdateIDs, name \in Names, email \in InputEmails :
          UpdateUserCallAlone(p, id, name, email)
    \/ \E p \in Procs : UpdateUser(p)
    \/ \E p \in Procs, id \in InputIDs : DeleteUserCall(p, id)
    \/ \E p \in Procs : DeleteUser(p)

SpecSequential == Init /\ [][NextSequential]_vars


\* ------------------------------------------ UpdateUser and DeleteUser only
\* Every goroutine calls UpdateUser or DeleteUser once, on one of the seeds.
\* UpdateUser is taken in the two halves its body has, so that what keeps the
\* halves together is the lock and nothing else.
WriterIDs == {"id1", "id2"}

\* UpdateUser entering under the read lock
UpdateUserEnterRLock(p, id, name, email) ==
    /\ Call(p, "UpdateUser", id, name, email, "update_lookup")
    /\ RLock(p)

UpdateUserEnter(p, id, name, email) ==
    /\ Call(p, "UpdateUser", id, name, email, "update_lookup")
    /\ Lock(p)

\* user, exists := s.users[id] and the conflict loop
UpdateUserLookup(p) ==
    /\ pc[p] = "update_lookup"
    /\ LET id == op[p].id
       IN  IF id \notin DOMAIN users
           THEN /\ Finish(p, NewNotFoundError("user", id), NoUser, <<>>)
                /\ Unlock(p)
                /\ UNCHANGED cand
           ELSE IF EmailTakenByOther(users, id, op[p].email)
           THEN /\ Finish(p, NewConflictError("email already exists"), NoUser, <<>>)
                /\ Unlock(p)
                /\ UNCHANGED cand
           ELSE /\ cand' = [cand EXCEPT ![p] = users[id]]
                /\ pc' = [pc EXCEPT ![p] = "update_apply"]
                /\ UNCHANGED <<res, mutex>>
    /\ UNCHANGED <<users, now, issued, op, returned, probe, service, req, resp>>

\* user.Update, user.Validate and the return. user points at the record of the
\* map entry; a record no longer in the map is written where nobody sees it.
UpdateUserApply(p) ==
    /\ pc[p] = "update_apply"
    /\ \E t \in 0..MaxClock :
       /\ IF UpdateReadsClock(op[p].name, op[p].email)
          THEN Now(t)
          ELSE t = now /\ UNCHANGED now
       /\ LET id == op[p].id
              target == IF id \in DOMAIN users THEN users[id] ELSE cand[p]
              user == Update(target, op[p].name, op[p].email, t)
              err == Validate(user)
          IN  /\ users' = IF id \in DOMAIN users
                          THEN [users EXCEPT ![id] = user]
                          ELSE users
              /\ IF err # NoError
                 THEN Finish(p, err, NoUser, <<>>)
                 ELSE Finish(p, NoError, user, <<>>)
    /\ Unlock(p)
    /\ UNCHANGED <<issued, op, cand, returned, probe, service, req, resp>>

NextWriters ==
    \/ \E p \in Procs, id \in WriterIDs, name \in Names, email \in InputEmails :
          UpdateUserEnter(p, id, name, email)
    \/ \E p \in Procs : UpdateUserLookup(p)
    \/ \E p \in Procs : UpdateUserApply(p)
    \/ \E p \in Procs, id \in WriterIDs : DeleteUserCall(p, id)
    \/ \E p \in Procs : DeleteUser(p)

SpecWriters == Init /\ [][NextWriters]_vars

\* One call run alone on the store us: the store it leaves and what it returns.
\* UpdateUser(id, name, email) with the clock reading t
UpdateUserAlone(us, o, t) ==
    IF o.id \notin DOMAIN us
    THEN [users |-> us,
          res |-> [err |-> NewNotFoundError("user", o.id), user |-> NoUser, list |-> <<>>]]
    ELSE IF EmailTakenByOther(us, o.id, o.email)
    THEN [users |-> us,
          res |-> [err |-> NewConflictError("email already exists"), user |-> NoUser,
                   list |-> <<>>]]
    ELSE LET user == Update(us[o.id], o.name, o.email, t)
             err == Validate(user)
         IN  [users |-> [us EXCEPT ![o.id] = user],
              res |-> IF err # NoError
                      THEN [err |-> err, user |-> NoUser, list |-> <<>>]
                      ELSE [err |-> NoError, user |-> user, list |-> <<>>]]

\* DeleteUser(id)
DeleteUserAlone(us, o) ==
    IF o.id \notin DOMAIN us
    THEN [users |-> us,
          res |-> [err |-> NewNotFoundError("user", o.id), user |-> NoUser, list |-> <<>>]]
    ELSE [users |-> [id \in DOMAIN us \ {o.id} |-> us[id]],
          res |-> [err |-> NoError, user |-> NoUser, list |-> <<>>]]

\* the calls ops run one after another in the order given, call order[i] with
\* the clock reading tm[order[i]], starting at call i from store us with results rs
RECURSIVE OneAfterAnother(_, _, _, _, _, _)
OneAfterAnother(ops, order, tm, i, us, rs) ==
    IF i > Len(order) THEN [users |-> us, res |-> rs]
    ELSE LET p == order[i]
             out == IF ops[p].kind = "UpdateUser"
                    THEN UpdateUserAlone(us, ops[p], tm[p])
                    ELSE DeleteUserAlone(us, ops[p])
         IN  OneAfterAnother(ops, order, tm, i + 1, out.users,
                             [rs EXCEPT ![p] = out.res])


\* ------------------------------------------- calls that wait for the lock
\* A call that has started waits at its first mutex.RLock() or mutex.Lock()
\* until the lock lets it in; CreateUser waits a second time, at mutex.Lock().
\* The calls the goroutines make, one of each method and a refused CreateUser:
LiveCalls ==
    { [kind |-> "GetUsers", id |-> "", name |-> "", email |-> <<>>],
      [kind |-> "GetUserByID", id |-> "id1", name |-> "", email |-> <<>>],
      [kind |-> "CreateUser", id |-> "", name |-> "Alice", email |-> AliceEmail],
      [kind |-> "CreateUser", id |-> "", name |-> "Alice", email |-> JaneEmail],
      [kind |-> "UpdateUser", id |-> "id1", name |-> "Alice", email |-> <<>>],
      [kind |-> "DeleteUser", id |-> "id1", name |-> "", email |-> <<>>] }

\* the goroutine enters the method and reaches its first lock call
StartCall(p, o) ==
    /\ Call(p, o.kind, o.id, o.name, o.email, "waiting")
    /\ UNCHANGED mutex

\* where the method continues once it has the lock
FirstStep(kind) ==
    CASE kind = "GetUsers" -> "list_read"
      [] kind = "GetUserByID" -> "get_read"
      [] kind = "CreateUser" -> "create_scan"
      [] kind = "UpdateUser" -> "update_body"
      [] kind = "DeleteUser" -> "delete_body"

\* the first lock call returns: RLock for the reads and for checkEmailExists,
\* Lock for UpdateUser and DeleteUser
Acquire(p) ==
    /\ pc[p] = "waiting"
    /\ IF op[p].kind \in {"UpdateUser", "DeleteUser"} THEN Lock(p) ELSE RLock(p)
    /\ pc' = [pc EXCEPT ![p] = FirstStep(op[p].kind)]
    /\ UNCHANGED <<users, now, issued, op, cand, res, returned, probe, service, req, resp>>

\* the steps a goroutine takes without waiting for anybody
Running(p) ==
    \/ GetUsers(p)
    \/ GetUserByID(p)
    \/ CreateUserScan(p)
    \/ CreateUserNew(p)
    \/ CreateUserInsert(p)
    \/ UpdateUser(p)
    \/ DeleteUser(p)

NextLive ==
    \/ \E p \in Procs, o \in LiveCalls : StartCall(p, o)
    \/ \E p \in Procs : Acquire(p)
    \/ \E p \in Procs : GetUsers(p)
    \/ \E p \in Procs : GetUserByID(p)
    \/ \E p \in Procs : CreateUserScan(p)
    \/ \E p \in Procs : CreateUserNew(p)
    \/ \E p \in Procs : CreateUserLock(p)
    \/ \E p \in Procs : CreateUserInsert(p)
    \/ \E p \in Procs : UpdateUser(p)
    \/ \E p \in Procs : DeleteUser(p)

\* A runnable goroutine is scheduled (weak fairness), and the lock is fair: a
\* goroutine that could take the lock again and again does take it (strong
\* fairness). Nothing obliges a goroutine to start a call.
FairLive ==
    \A p \in Procs :
        /\ WF_vars(Running(p))
        /\ SF_vars(Acquire(p) \/ CreateUserLock(p))

SpecLive == Init /\ [][NextLive]_vars /\ FairLive


\* ------------------------------------------------ a seed deleted and after
\* The goroutines delete the seed jane, look her id up, update her record or
\* john's, and offer her address again through CreateUser and UpdateUser.
ReuseIDs == {"id1", "id2"}
ReuseEmails == {<<>>, JaneEmail}

NextReuse ==
    \/ \E p \in Procs : DeleteUserCall(p, "id2")
    \/ \E p \in Procs : DeleteUser(p)
    \/ \E p \in Procs : GetUserByIDCall(p, "id2")
    \/ \E p \in Procs : GetUserByID(p)
    \/ \E p \in Procs : CreateUserCall(p, "Alice", JaneEmail)
    \/ \E p \in Procs : CreateUserScan(p)
    \/ \E p \in Procs : CreateUserNew(p)
    \/ \E p \in Procs : CreateUserLock(p)
    \/ \E p \in Procs : CreateUserInsert(p)
    \/ \E p \in Procs, id \in ReuseIDs, email \in ReuseEmails :
          UpdateUserCall(p, id, "Alice", email)
    \/ \E p \in Procs : UpdateUser(p)

SpecReuse == Init /\ [][NextReuse]_vars

\* --------------------------------------------- isValidEmail on its own
\* isValidEmail is called directly, as TestIsValidEmail does, on every string
\* of at most MaxLen characters over a letter, '@' and '.'.
Alphabet == {"a", "@", "."}
EmailStrings == UNION {[1..n -> Alphabet] : n \in 0..MaxLen}

InitEmail ==
    /\ NewInMemoryUserService
    /\ now = 0
    /\ pc = [p \in Procs |-> "idle"]
    /\ op = [p \in Procs |-> NoOp]
    /\ cand = [p \in Procs |-> NoUser]
    /\ res = [p \in Procs |-> NoResult]
    /\ returned = {}
    /\ probe \in {[NoProbe EXCEPT !.email = s] : s \in EmailStrings}
    /\ service = "InMemoryUserService"
    /\ req = [p \in Procs |-> NoRequest]
    /\ resp = [p \in Procs |-> NoResponse]

isValidEmailCall ==
    /\ ~probe.called
    /\ probe' = [probe EXCEPT !.called = TRUE, !.valid = isValidEmail(probe.email)]
    /\ UNCHANGED <<users, mutex, now, issued, pc, op, cand, res, returned,
                   service, req, resp>>

NextEmail == isValidEmailCall

SpecEmail == InitEmail /\ [][NextEmail]_vars

\* ------------------------------------------------- errors.go, HTTP side
StatusOK == 200
StatusCreated == 201
StatusNoContent == 204
StatusBadRequest == 400
StatusNotFound == 404
StatusMethodNotAllowed == 405
StatusConflict == 409
StatusInternalServerError == 500

\* an AppError with a Cause; the other constructors leave Cause nil
NewInternalError(message, cause) ==
    [type |-> ErrorTypeInternal, message |-> message, field |-> "", cause |-> cause]

\* an error value that is not an AppError: its own text and the error it
\* wraps (NoError: none), as errors.New and WrapError build them
WrapError(err, message) == [text |-> message, wraps |-> err]

\* err == nil
IsNil(err) == "type" \in DOMAIN err /\ err.type = ""

\* errors.As(err, &appErr): the first AppError in the chain of err
RECURSIVE IsAppError(_)
IsAppError(err) ==
    IF "type" \in DOMAIN err
    THEN [appErr |-> err, ok |-> ~IsNil(err)]
    ELSE IsAppError(err.wraps)

\* HTTPStatusCode that answers 400 for every kind it does not name
HTTPStatusCodeDefault400(e) ==
    CASE e.type = ErrorTypeValidation -> StatusBadRequest
      [] e.type = ErrorTypeNotFound -> StatusNotFound
      [] e.type = ErrorTypeConflict -> StatusConflict
      [] e.type = ErrorTypeInternal -> StatusInternalServerError
      [] OTHER -> StatusBadRequest

HTTPStatusCode(e) ==
    CASE e.type = ErrorTypeValidation -> StatusBadRequest
      [] e.type = ErrorTypeNotFound -> StatusNotFound
      [] e.type = ErrorTypeConflict -> StatusConflict
      [] e.type = ErrorTypeInternal -> StatusInternalServerError
      [] OTHER -> StatusInternalServerError

\* ------------------------------------------------ strings of the router
HasPrefix(s, prefix) ==
    Len(s) >= Len(prefix) /\ SubSeq(s, 1, Len(prefix)) = prefix

TrimPrefix(s, prefix) ==
    IF HasPrefix(s, prefix) THEN SubSeq(s, Len(prefix) + 1, Len(s)) ELSE s

\* the Go string made of the characters of s
RECURSIVE String(_)
String(s) == IF s = <<>> THEN "" ELSE Head(s) \o String(Tail(s))

UsersPath == <<"/","u","s","e","r","s">>
HealthPath == <<"/","h","e","a","l","t","h">>
RootPath == <<"/">>

\* ------------------------------------------------------ main.go: the mux
\* http.ServeMux with the four patterns of main: "/users" and "/health" match
\* exactly, "/users/" and "/" match as prefixes, the longest pattern wins
ServeMux(path) ==
    IF path = UsersPath \/ HasPrefix(path, UsersPath \o <<"/">>) THEN "userHandler"
    ELSE IF path = HealthPath THEN "healthHandler"
    ELSE "rootHandler"

\* --------------------------------------------------- handlers.go: routing
\* a router that passes the path after /users on as the userID, slash included
ServeHTTPRouteKeepsSlash(r) ==
    LET path == TrimPrefix(r.path, UsersPath)
    IN  IF path = <<>> \/ path = <<"/">>
        THEN [handler |-> CASE r.method = "GET" -> "handleGetUsers"
                            [] r.method = "POST" -> "handleCreateUser"
                            [] OTHER -> "methodNotAllowed",
              userID |-> ""]
        ELSE IF HasPrefix(path, <<"/">>)
        THEN [handler |-> CASE r.method = "GET" -> "handleGetUser"
                            [] r.method = "PUT" -> "handleUpdateUser"
                            [] r.method = "DELETE" -> "handleDeleteUser"
                            [] OTHER -> "methodNotAllowed",
              userID |-> String(path)]
        ELSE [handler |-> "notFound", userID |-> ""]

\* the switch of UserHandler.ServeHTTP: the handler it calls and the userID
\* it passes
ServeHTTPRoute(r) ==
    LET path == TrimPrefix(r.path, UsersPath)
    IN  IF path = <<>> \/ path = <<"/">>
        THEN [handler |-> CASE r.method = "GET" -> "handleGetUsers"
                            [] r.method = "POST" -> "handleCreateUser"
                            [] OTHER -> "methodNotAllowed",
              userID |-> ""]
        ELSE IF HasPrefix(path, <<"/">>)
        THEN [handler |-> CASE r.method = "GET" -> "handleGetUser"
                            [] r.method = "PUT" -> "handleUpdateUser"
                            [] r.method = "DELETE" -> "handleDeleteUser"
                            [] OTHER -> "methodNotAllowed",
              userID |-> String(TrimPrefix(path, <<"/">>))]
        ELSE [handler |-> "notFound", userID |-> ""]

\* the function that serves request r
Handler(r) ==
    IF ServeMux(r.path) = "userHandler" THEN ServeHTTPRoute(r)
    ELSE [handler |-> ServeMux(r.path), userID |-> ""]

\* decoding into CreateUserRequest that skips unknown members
DecodeCreateLenient(body) ==
    [ok |-> body.wellformed,
     name |-> IF "name" \in body.members THEN body.name ELSE "",
     email |-> IF "email" \in body.members THEN body.email ELSE <<>>]

\* json.Decoder.Decode into CreateUserRequest with DisallowUnknownFields
DecodeCreate(body) ==
    [ok |-> body.wellformed /\ body.members \subseteq {"name", "email"},
     name |-> IF "name" \in body.members THEN body.name ELSE "",
     email |-> IF "email" \in body.members THEN body.email ELSE <<>>]

\* json.Decoder.Decode into UpdateUserRequest: unknown members are skipped
DecodeUpdate(body) ==
    [ok |-> body.wellformed,
     name |-> IF "name" \in body.members THEN body.name ELSE "",
     email |-> IF "email" \in body.members THEN body.email ELSE <<>>]

\* ------------------------------------------------- handlers.go: responses
JSON == "application/json"

writeErrorResponse(statusCode, message) ==
    [NoResponse EXCEPT !.status = statusCode, !.contentType = JSON,
                       !.kind = "error", !.error = [message |-> message]]

writeUser(statusCode, user) ==
    [NoResponse EXCEPT !.status = statusCode, !.contentType = JSON,
                       !.kind = "user", !.user = user]

writeUsers(statusCode, list) ==
    [NoResponse EXCEPT !.status = statusCode, !.contentType = JSON,
                       !.kind = "users", !.list = list]

\* handleError that reports the text of an error it does not recognise
handleErrorLeaks(err) ==
    LET as == IsAppError(err)
    IN  IF as.ok
        THEN [NoResponse EXCEPT
                !.status = HTTPStatusCode(as.appErr), !.contentType = JSON,
                !.kind = "error",
                !.error = [type |-> as.appErr.type,
                           message |-> as.appErr.message,
                           field |-> as.appErr.field]]
        ELSE writeErrorResponse(StatusInternalServerError, err.text)

handleError(err) ==
    LET as == IsAppError(err)
    IN  IF as.ok
        THEN [NoResponse EXCEPT
                !.status = HTTPStatusCode(as.appErr), !.contentType = JSON,
                !.kind = "error",
                !.error = [type |-> as.appErr.type,
                           message |-> as.appErr.message,
                           field |-> as.appErr.field]]
        ELSE writeErrorResponse(StatusInternalServerError, "internal server error")

\* healthHandler answers every method; the status is the implicit 200
healthHandler(r) ==
    [NoResponse EXCEPT !.status = StatusOK, !.contentType = JSON,
                       !.kind = "object", !.text = "healthy"]

\* rootHandler without the path check
rootHandlerAnyPath(r) ==
    [NoResponse EXCEPT !.status = StatusOK, !.contentType = JSON,
                       !.kind = "object",
                       !.text = "Welcome to User Service API"]

\* rootHandler: http.NotFound writes a text/plain body
rootHandler(r) ==
    IF r.path # RootPath
    THEN [NoResponse EXCEPT !.status = StatusNotFound,
                            !.contentType = "text/plain; charset=utf-8",
                            !.kind = "text", !.text = "404 page not found"]
    ELSE [NoResponse EXCEPT !.status = StatusOK, !.contentType = JSON,
                            !.kind = "object",
                            !.text = "Welcome to User Service API"]

\* ------------------------------------------------------ HTTP-level inputs
Methods == {"GET", "POST", "PUT", "DELETE"}
Chars(id) == <<"/","u","s","e","r","s","/","i","d",id>>
Paths == {UsersPath, UsersPath \o <<"/">>, Chars("1"), Chars("4"),
          HealthPath, RootPath, <<"/","n","o","p","e">>, UsersPath \o <<"x">>}

\* {"name":"Alice","email":"alice@example.com"}
AliceBody ==
    [wellformed |-> TRUE, name |-> "Alice", email |-> AliceEmail,
     members |-> {"name", "email"}]
\* {"name":"Alice","email":}
MalformedBody == [AliceBody EXCEPT !.wellformed = FALSE, !.email = <<>>]
\* {"name":"Alice","email":"alice@example.com","role":"admin"}
ExtraFieldBody == [AliceBody EXCEPT !.members = @ \cup {"role"}]
\* {"name":"Alice","email":"invalid-email"}
BadEmailBody == [AliceBody EXCEPT !.email = BadNoAt]
Bodies == {AliceBody, MalformedBody, ExtraFieldBody, BadEmailBody}

\* every method on every path with an empty body, and the bodies above on
\* POST /users and PUT /users/{id}
HTTPRequests ==
    {[method |-> m, path |-> path, body |-> NoBody] : m \in Methods, path \in Paths}
    \cup {[method |-> "POST", path |-> UsersPath, body |-> b] : b \in Bodies}
    \cup {[method |-> "PUT", path |-> path, body |-> b] :
             path \in {Chars("1"), Chars("4")}, b \in Bodies}

\* what a UserService other than the in-memory one may return from a call
StubErrors ==
    {NoError,
     NewNotFoundError("user", "id1"),
     NewInternalError("storage unavailable", WrapError(NoError, "dial tcp 10.0.0.5:5432")),
     [type |-> "UNKNOWN_ERROR", message |-> "unexpected", field |-> ""],
     WrapError(NoError, "disk failure"),
     WrapError(NewConflictError("email already exists"), "create failed")}

\* --------------------------------------------------- handlers.go: actions
InitHTTP ==
    /\ NewInMemoryUserService
    /\ now = 0
    /\ pc = [p \in Procs |-> "idle"]
    /\ op = [p \in Procs |-> NoOp]
    /\ cand = [p \in Procs |-> NoUser]
    /\ res = [p \in Procs |-> NoResult]
    /\ returned = {}
    /\ probe = NoProbe
    /\ service \in {"InMemoryUserService", "stub"}
    /\ req = [p \in Procs |-> NoRequest]
    /\ resp = [p \in Procs |-> NoResponse]

\* the handler writes its response
Reply(p, response) ==
    /\ resp' = [resp EXCEPT ![p] = response]
    /\ UNCHANGED <<users, mutex, now, issued, pc, op, cand, res, returned, probe,
                   service, req>>

\* a call of the stub service: it returns at once, with any of its results
StubCall(p, kind, id, name, email) ==
    /\ pc[p] = "idle"
    /\ op' = [op EXCEPT ![p] = [kind |-> kind, id |-> id, name |-> name, email |-> email]]
    /\ \E e \in StubErrors :
          Finish(p, e, IF IsNil(e) THEN seedData["id1"] ELSE NoUser,
                       IF IsNil(e) THEN <<seedData["id1"]>> ELSE <<>>)
    /\ UNCHANGED <<users, mutex, now, issued, cand, returned, probe, service, req, resp>>

\* request r reaches the server; requests are served one after the other, as
\* the handler tests send them. The mux and the router answer by themselves
\* when no handler of UserHandler is selected.
ServeHTTP(p, r) ==
    /\ pc[p] = "idle"
    /\ req[p] = NoRequest
    /\ \A q \in Procs : q < p => resp[q] # NoResponse
    /\ service = "stub" => p = 1
    /\ req' = [req EXCEPT ![p] = r]
    /\ LET h == Handler(r).handler
       IN  resp' = [resp EXCEPT ![p] =
             CASE h = "methodNotAllowed" ->
                    writeErrorResponse(StatusMethodNotAllowed, "method not allowed")
               [] h = "notFound" ->
                    writeErrorResponse(StatusNotFound, "endpoint not found")
               [] h = "healthHandler" -> healthHandler(r)
               [] h = "rootHandler" -> rootHandler(r)
               [] OTHER -> NoResponse]
    /\ UNCHANGED <<users, mutex, now, issued, pc, op, cand, res, returned, probe,
                   service>>

\* goroutine p is about to run handler h on its request
Pending(p, h) ==
    /\ pc[p] = "idle"
    /\ req[p] # NoRequest
    /\ resp[p] = NoResponse
    /\ Handler(req[p]).handler = h

handleGetUsers(p) ==
    /\ Pending(p, "handleGetUsers")
    /\ IF service = "stub" THEN StubCall(p, "GetUsers", "", "", <<>>)
       ELSE GetUsersCall(p)

handleGetUser(p) ==
    /\ Pending(p, "handleGetUser")
    /\ LET userID == Handler(req[p]).userID
       IN  IF service = "stub" THEN StubCall(p, "GetUserByID", userID, "", <<>>)
           ELSE GetUserByIDCall(p, userID)

handleCreateUser(p) ==
    /\ Pending(p, "handleCreateUser")
    /\ LET request == DecodeCreate(req[p].body)
       IN  IF ~request.ok
           THEN Reply(p, writeErrorResponse(StatusBadRequest, "invalid JSON body"))
           ELSE IF service = "stub"
           THEN StubCall(p, "CreateUser", "", request.name, request.email)
           ELSE CreateUserCall(p, request.name, request.email)

handleUpdateUser(p) ==
    /\ Pending(p, "handleUpdateUser")
    /\ LET request == DecodeUpdate(req[p].body)
           userID == Handler(req[p]).userID
       IN  IF ~request.ok
           THEN Reply(p, writeErrorResponse(StatusBadRequest, "invalid JSON body"))
           ELSE IF service = "stub"
           THEN StubCall(p, "UpdateUser", userID, request.name, request.email)
           ELSE UpdateUserCall(p, userID, request.name, request.email)

handleDeleteUser(p) ==
    /\ Pending(p, "handleDeleteUser")
    /\ LET userID == Handler(req[p]).userID
       IN  IF service = "stub" THEN StubCall(p, "DeleteUser", userID, "", <<>>)
           ELSE DeleteUserCall(p, userID)

\* what a handler writes once its service call has returned without error
writeSuccess(kind, result) ==
    CASE kind = "GetUsers" -> writeUsers(StatusOK, result.list)
      [] kind = "GetUserByID" -> writeUser(StatusOK, result.user)
      [] kind = "CreateUser" -> writeUser(StatusCreated, result.user)
      [] kind = "UpdateUser" -> writeUser(StatusOK, result.user)
      [] kind = "DeleteUser" ->
           [NoResponse EXCEPT !.status = StatusNoContent, !.contentType = JSON,
                              !.kind = "empty"]

\* the rest of a handler, after its service call has returned
handlerReturn(p) ==
    /\ pc[p] = "done"
    /\ req[p] # NoRequest
    /\ resp[p] = NoResponse
    /\ Reply(p, IF ~IsNil(res[p].err) THEN handleError(res[p].err)
                ELSE writeSuccess(op[p].kind, res[p]))

NextHTTP ==
    \/ \E p \in Procs, r \in HTTPRequests : ServeHTTP(p, r)
    \/ \E p \in Procs : handleGetUsers(p)
    \/ \E p \in Procs : handleGetUser(p)
    \/ \E p \in Procs : handleCreateUser(p)
    \/ \E p \in Procs : handleUpdateUser(p)
    \/ \E p \in Procs : handleDeleteUser(p)
    \/ \E p \in Procs : handlerReturn(p)
    \/ \E p \in Procs : GetUsers(p)
    \/ \E p \in Procs : GetUserByID(p)
    \/ \E p \in Procs : CreateUserScan(p)
    \/ \E p \in Procs : CreateUserNew(p)
    \/ \E p \in Procs : CreateUserLock(p)
    \/ \E p \in Procs : CreateUserInsert(p)
    \/ \E p \in Procs : UpdateUser(p)
    \/ \E p \in Procs : DeleteUser(p)

SpecHTTP == InitHTTP /\ [][NextHTTP]_vars

\* ------------------------------------------------------ shared vocabulary
\* some stored user has this email (exact comparison)
Holds(us, email) == \E id \in DOMAIN us : us[id].email = email

Succeeded(p) == pc[p] = "done" /\ res[p].err = NoError
FailedWith(p, type) == pc[p] = "done" /\ res[p].err.type = type

AllDone == \A p \in Procs : pc[p] = "done"

\* process p takes the step that leaves position at
Leaves(p, at) == pc[p] = at /\ pc'[p] # at

ValidInput(name, email) == name # "" /\ email # <<>> /\ isValidEmail(email)

\* ------------------------------------------------------------------ claims

\* C1: in every reachable state no two stored users have the same email.
C1_UniqueEmails ==
    \A i, j \in DOMAIN users : i # j => users[i].email # users[j].email

\* C2: when all N goroutines call CreateUser with one and the same fresh valid
\* email, exactly one call succeeds and the other N-1 return Conflict.
C2_OneWinner ==
    (AllDone /\ \A p, q \in Procs : op[p].email = op[q].email)
        => /\ Cardinality({p \in Procs : Succeeded(p)}) = 1
           /\ \A p \in Procs : ~Succeeded(p) => FailedWith(p, ErrorTypeConflict)

\* C3: between a mutating operation's uniqueness check and the write the check
\* guards, no other operation writes to the store.
C3_NoWriteBetweenCheckAndWrite ==
    [][\A p \in Procs : pc[p] \in {"create_new", "create_lock"} => users' = users]_vars

\* C4: when the N goroutines call CreateUser with pairwise distinct fresh valid
\* emails and non-empty names, all succeed, the returned ids are pairwise
\* distinct and the store holds every returned user once all have returned.
C4_DistinctAllSucceed ==
    (AllDone /\ \A p, q \in Procs : p # q => op[p].email # op[q].email)
        => /\ \A p \in Procs : Succeeded(p)
           /\ \A p, q \in Procs : p # q => res[p].user.id # res[q].user.id
           /\ \A p \in Procs :
                 /\ res[p].user.id \in DOMAIN users
                 /\ users[res[p].user.id] = res[p].user
                 /\ res[p].user.name = op[p].name
                 /\ res[p].user.email = op[p].email

C4_Witness ==
    /\ AllDone
    /\ \A p, q \in Procs : p # q => op[p].email # op[q].email
    /\ \A p \in Procs : op[p].kind = "CreateUser"
    /\ Cardinality(DOMAIN users) = 3 + NumProcs

\* C5: UpdateUser of an existing id with a non-empty name and an empty email
\* succeeds, stores the name, keeps the email and moves updated_at strictly
\* forward.
C5_NameOnlyUpdate ==
    [][\A p \in Procs :
        (/\ Leaves(p, "update_body")
         /\ op[p].id \in DOMAIN users
         /\ op[p].name # ""
         /\ op[p].email = <<>>)
        => /\ res'[p].err = NoError
           /\ users'[op[p].id].name = op[p].name
           /\ users'[op[p].id].email = users[op[p].id].email
           /\ users'[op[p].id].updated_at > users[op[p].id].updated_at]_vars

\* C6: UpdateUser of an existing id with a supplied email that fails the
\* structural rule returns a Validation error.
C6_UpdateRejectsBadEmail ==
    [][\A p \in Procs :
        (/\ Leaves(p, "update_body")
         /\ op[p].id \in DOMAIN users
         /\ op[p].email # <<>>
         /\ ~isValidEmail(op[p].email))
        => res'[p].err.type = ErrorTypeValidation]_vars

\* C7: CreateUser with an empty name, an empty email or a malformed email, and
\* an email no stored user holds when the call scans the store, returns a
\* Validation error naming the field ("name" for an empty name, else "email")
\* and inserts nothing.
C7_CreateValidation ==
    [][\A p \in Procs :
        /\ (/\ Leaves(p, "create_scan")
            /\ ~ValidInput(op[p].name, op[p].email)
            /\ ~Holds(users, op[p].email))
           => /\ pc'[p] = "create_new"
              /\ users' = users
        /\ (/\ Leaves(p, "create_new")
            /\ ~ValidInput(op[p].name, op[p].email))
           => /\ pc'[p] = "done"
              /\ res'[p].err.type = ErrorTypeValidation
              /\ res'[p].err.field = (IF op[p].name = "" THEN "name" ELSE "email")
              /\ res'[p].user = NoUser
              /\ users' = users]_vars

C7_Witness ==
    \E p, q \in Procs :
        /\ op[p].kind = "CreateUser" /\ op[p].name = ""
        /\ FailedWith(p, ErrorTypeValidation) /\ res[p].err.field = "name"
        /\ op[q].kind = "CreateUser" /\ op[q].name # "" /\ op[q].email \in BadEmails
        /\ FailedWith(q, ErrorTypeValidation) /\ res[q].err.field = "email"
        /\ users = seedData

\* C8: CreateUser with an email that a stored user holds when the call scans
\* the store returns Conflict whatever the name (the empty name included) and
\* inserts nothing.
C8_CreateConflictFirst ==
    [][\A p \in Procs :
        (Leaves(p, "create_scan") /\ Holds(users, op[p].email))
        => /\ pc'[p] = "done"
           /\ res'[p].err.type = ErrorTypeConflict
           /\ res'[p].user = NoUser
           /\ users' = users]_vars

C8_Witness ==
    \E p \in Procs :
        /\ op[p].kind = "CreateUser" /\ op[p].name = "" /\ op[p].email = JaneEmail
        /\ FailedWith(p, ErrorTypeConflict)
        /\ users = seedData

\* C9: CreateUser with a non-empty name and a valid email that no stored user
\* holds when the call scans the store succeeds: it inserts exactly one new
\* user with that name and email, and returns it with a non-empty id that no
\* earlier CreateUser returned and under which the store then holds it.
C9_CreateSucceeds ==
    [][\A p \in Procs :
        /\ (/\ Leaves(p, "create_scan")
            /\ ValidInput(op[p].name, op[p].email)
            /\ ~Holds(users, op[p].email))
           => pc'[p] = "create_new"
        /\ (Leaves(p, "create_new") /\ ValidInput(op[p].name, op[p].email))
           => pc'[p] = "create_lock"
        /\ Leaves(p, "create_lock") => pc'[p] = "create_insert"
        /\ Leaves(p, "create_insert")
           => LET u == res'[p].user
              IN  /\ pc'[p] = "done"
                  /\ res'[p].err = NoError
                  /\ u.id # ""
                  /\ u.id \notin returned
                  /\ u.id \notin DOMAIN users
                  /\ u.name = op[p].name
                  /\ u.email = op[p].email
                  /\ DOMAIN users' = DOMAIN users \cup {u.id}
                  /\ users'[u.id] = u
                  /\ \A id \in DOMAIN users : users'[id] = users[id]]_vars

C9_Witness ==
    \E p, q \in Procs :
        /\ p # q
        /\ op[p].kind = "CreateUser" /\ Succeeded(p)
        /\ op[q].kind = "CreateUser" /\ Succeeded(q)
        /\ op[p].email # op[q].email
        /\ returned = {res[p].user.id, res[q].user.id}
        /\ Cardinality(DOMAIN users) = 5

C11_UpdateConflict ==
    [][\A p \in Procs :
        (Leaves(p, "update_body") /\ op[p].id \in DOMAIN users)
        => /\ (/\ op[p].email # <<>>
               /\ op[p].email # users[op[p].id].email
               /\ \E k \in DOMAIN users \ {op[p].id} : users[k].email = op[p].email)
              => /\ res'[p].err = NewConflictError("email already exists")
                 /\ res'[p].user = NoUser
                 /\ users' = users
           /\ op[p].email = users[op[p].id].email
              => res'[p].err.type # ErrorTypeConflict]_vars

\* an update of John Doe's record was refused the address of Jane Smith
C11_Witness ==
    \E p \in Procs :
        /\ op[p].kind = "UpdateUser" /\ op[p].id = "id1" /\ op[p].email = JaneEmail
        /\ FailedWith(p, ErrorTypeConflict)
        /\ res[p].user = NoUser
        /\ users["id1"].email = JohnEmail
        /\ users["id2"].email = JaneEmail

\* C12: GetUserByID, UpdateUser and DeleteUser called with an id that is not a
\* key of the store return a NotFound error whatever the other arguments are,
\* and leave the store unchanged.
C12_MissingIdNotFound ==
    [][\A p \in Procs :
        (/\ Leaves(p, "get_read") \/ Leaves(p, "update_body") \/ Leaves(p, "delete_body")
         /\ op[p].id \notin DOMAIN users)
        => /\ res'[p].err = NewNotFoundError("user", op[p].id)
           /\ res'[p].user = NoUser
           /\ users' = users]_vars

\* id1 was deleted, and an update of id1 that supplies the address of Jane
\* Smith was answered NotFound
C12_Witness ==
    \E p, q \in Procs :
        /\ op[p].kind = "DeleteUser" /\ op[p].id = "id1" /\ Succeeded(p)
        /\ op[q].kind = "UpdateUser" /\ op[q].id = "id1"
        /\ op[q].email \in {JaneEmail, BadNoAt}
        /\ FailedWith(q, ErrorTypeNotFound)
        /\ "id1" \notin DOMAIN users

\* what C13 says of every UpdateUser of a stored id with a non-empty name and a
\* valid email that no other user holds, except for the timestamp
UpdateApplied(p) ==
    /\ res'[p].err = NoError
    /\ users'[op[p].id].name = op[p].name
    /\ users'[op[p].id].email = op[p].email
    /\ users'[op[p].id].id = users[op[p].id].id
    /\ users'[op[p].id].created_at = users[op[p].id].created_at
    /\ res'[p].user = users'[op[p].id]

UpdateAccepted(p) ==
    /\ Leaves(p, "update_body")
    /\ op[p].id \in DOMAIN users
    /\ ValidInput(op[p].name, op[p].email)
    /\ ~\E k \in DOMAIN users \ {op[p].id} : users[k].email = op[p].email

\* C13 as stated: such an UpdateUser succeeds, stores the supplied name and
\* email, leaves id and created_at alone, returns the stored record, and moves
\* updated_at to a strictly later time (the clock still has later readings).
C13_UpdateStrictlyLater ==
    [][\A p \in Procs :
        (UpdateAccepted(p) /\ users[op[p].id].updated_at < MaxClock)
        => /\ UpdateApplied(p)
           /\ users'[op[p].id].updated_at > users[op[p].id].updated_at]_vars

\* C13 amended: such an UpdateUser succeeds, stores the supplied name and
\* email, leaves id and created_at alone, returns the stored record, and sets
\* updated_at to the clock's reading, which is never earlier than the previous
\* updated_at and is later exactly when the clock has moved on since.
C13_UpdateRestamps ==
    [][\A p \in Procs :
        UpdateAccepted(p)
        => /\ UpdateApplied(p)
           /\ users'[op[p].id].updated_at = now'
           /\ users'[op[p].id].updated_at >= users[op[p].id].updated_at]_vars

C13_Witness ==
    \E p \in Procs :
        /\ op[p].kind = "UpdateUser" /\ op[p].id = "id1"
        /\ op[p].name = "Alice" /\ op[p].email = AliceEmail
        /\ Succeeded(p)
        /\ res[p].user = [seedData["id1"] EXCEPT !.name = "Alice",
                                                 !.email = AliceEmail,
                                                 !.updated_at = 1]
        /\ users["id1"] = res[p].user

\* C14: once DeleteUser has succeeded for an id, the id stays out of the store,
\* every DeleteUser and GetUserByID of that id that runs afterwards returns
\* NotFound, and no second DeleteUser of that id succeeds.
C14_DeleteOnce ==
    /\ [](\A p \in Procs :
            (op[p].kind = "DeleteUser" /\ Succeeded(p))
            => /\ op[p].id \notin DOMAIN users
               /\ \A q \in Procs \ {p} :
                     ~(/\ op[q].kind = "DeleteUser" /\ Succeeded(q)
                       /\ op[q].id = op[p].id))
    /\ [][\A p, q \in Procs :
            (/\ op[p].kind = "DeleteUser" /\ Succeeded(p)
             /\ Leaves(q, "get_read") \/ Leaves(q, "delete_body")
             /\ op[q].id = op[p].id)
            => res'[q].err = NewNotFoundError("user", op[q].id)]_vars

\* id1 was deleted; a second DeleteUser of id1 was answered NotFound
C14_Witness ==
    \E p, q \in Procs :
        /\ op[p].kind = "DeleteUser" /\ op[p].id = "id1" /\ Succeeded(p)
        /\ op[q].kind = "DeleteUser" /\ op[q].id = "id1"
        /\ FailedWith(q, ErrorTypeNotFound)

\* C15: when CreateUser(name, email) has returned a user with some id, a
\* GetUserByID of that id that runs with no UpdateUser or DeleteUser of the id
\* in between returns that id, name and email, with created_at = updated_at.
C15_CreateThenGet ==
    [][\A p, q \in Procs :
        (/\ op[p].kind = "CreateUser" /\ Succeeded(p)
         /\ Leaves(q, "get_read")
         /\ op[q].id = res[p].user.id
         /\ op[q].id \in DOMAIN users
         /\ ~\E r \in Procs : /\ op[r].kind = "UpdateUser" /\ pc[r] = "done"
                              /\ op[r].id = op[q].id)
        => /\ res'[q].err = NoError
           /\ res'[q].user.id = res[p].user.id
           /\ res'[q].user.name = op[p].name
           /\ res'[q].user.email = op[p].email
           /\ res'[q].user.created_at = res'[q].user.updated_at]_vars

\* Alice was created as id4 and then read back
C15_Witness ==
    \E p, q \in Procs :
        /\ op[p].kind = "CreateUser" /\ Succeeded(p)
        /\ op[p].name = "Alice" /\ op[p].email = AliceEmail
        /\ res[p].user.id = "id4"
        /\ op[q].kind = "GetUserByID" /\ op[q].id = "id4" /\ Succeeded(q)
        /\ res[q].user = [id |-> "id4", name |-> "Alice", email |-> AliceEmail,
                          created_at |-> now, updated_at |-> now]

\* C16: while a GetUsers or GetUserByID call is inside its locked section no
\* UpdateUser or DeleteUser call is inside its locked section, and the other
\* way round.
C16_ReadersExcludeWriters ==
    \A p, q \in Procs :
        ~(/\ pc[p] \in {"list_read", "get_read"}
          /\ pc[q] \in {"update_body", "delete_body"})

\* two read calls are inside their locked sections at the same time
C16_Witness ==
    \E p, q \in Procs :
        /\ p # q
        /\ pc[p] = "list_read" /\ pc[q] = "get_read"
        /\ mutex.readers = {p, q}

\* C17: GetUsers never returns an error; the sequence it returns holds exactly
\* the users that are in the store at the instant of its copy, which lies
\* between its call and its return: one entry per id, with that user's fields.
C17_GetUsersSnapshot ==
    [][\A p \in Procs :
        Leaves(p, "list_read")
        => /\ res'[p].err = NoError
           /\ pc'[p] = "done"
           /\ Len(res'[p].list) = Cardinality(DOMAIN users)
           /\ \A id \in DOMAIN users :
                 \E i \in DOMAIN res'[p].list :
                    /\ res'[p].list[i] = users[id]
                    /\ \A j \in DOMAIN res'[p].list :
                          res'[p].list[j].id = id => j = i]_vars

\* GetUsers returned the three seeded users although a CreateUser that was
\* running at the same time has since added a fourth
C17_Witness ==
    \E p, q \in Procs :
        /\ op[p].kind = "GetUsers" /\ Succeeded(p)
        /\ Len(res[p].list) = 3
        /\ {res[p].list[i] : i \in 1..3} = {seedData[id] : id \in DOMAIN seedData}
        /\ op[q].kind = "CreateUser" /\ Succeeded(q)
        /\ Cardinality(DOMAIN users) = 4

\* C18: every stored user has updated_at >= created_at.
C18_UpdatedNotBeforeCreated ==
    \A id \in DOMAIN users : users[id].updated_at >= users[id].created_at

\* a user created after the clock had moved on was then updated
C18_Witness ==
    \E p, q \in Procs :
        /\ op[p].kind = "CreateUser" /\ Succeeded(p) /\ res[p].user.id = "id4"
        /\ res[p].user.created_at = 1
        /\ op[q].kind = "UpdateUser" /\ op[q].id = "id4" /\ Succeeded(q)
        /\ res[q].user.email # res[p].user.email
        /\ users["id4"] = res[q].user

\* C19: from a user's creation to its deletion no operation changes its id or
\* its created_at.
C19_IdAndCreatedAtFixed ==
    [][\A id \in DOMAIN users \cap DOMAIN users' :
        /\ users'[id].id = users[id].id
        /\ users'[id].created_at = users[id].created_at]_vars

\* John Doe's record was updated after the clock had moved on and still has
\* its id and its created_at
C19_Witness ==
    \E p \in Procs :
        /\ op[p].kind = "UpdateUser" /\ op[p].id = "id1" /\ Succeeded(p)
        /\ users["id1"].updated_at = 1
        /\ users["id1"].email # JohnEmail
        /\ users["id1"].id = "id1"
        /\ users["id1"].created_at = seedData["id1"].created_at
        /\ now = 1

\* the rule the specification states for a well-formed address: exactly one
\* '@', not in the first and not in the last position, and a '.' somewhere
\* after the '@' and before the last character
ReferenceRule(s) ==
    LET ats == {i \in 1..Len(s) : s[i] = "@"}
    IN  /\ Cardinality(ats) = 1
        /\ \A a \in ats :
              /\ a # 1
              /\ a # Len(s)
              /\ \E j \in (a + 1)..(Len(s) - 1) : s[j] = "."

\* C20: isValidEmail returns true exactly for the strings that satisfy the
\* reference rule, for every string over an alphabet with '@' and '.'.
C20_EmailRule ==
    probe.called => (probe.valid <=> ReferenceRule(probe.email))

\* a@.a was accepted: the '.' directly follows the '@' and is not last
C20_Witness ==
    /\ probe.called
    /\ probe.valid
    /\ probe.email = <<"a", "@", ".", "a">>
    /\ ReferenceRule(probe.email)

\* ---------------------------------------- vocabulary of the HTTP claims
\* the routing table of the specification, read off the request itself
Answered(p) == req[p] # NoRequest /\ resp[p].status # 0
IsCollectionPath(path) == path = UsersPath \/ path = UsersPath \o <<"/">>
IsItemPath(path) ==
    /\ Len(path) > Len(UsersPath) + 1
    /\ SubSeq(path, 1, Len(UsersPath) + 1) = UsersPath \o <<"/">>
IsKnownPath(path) ==
    IsCollectionPath(path) \/ IsItemPath(path) \/ path = HealthPath \/ path = RootPath
TableMethods(path) ==
    IF IsCollectionPath(path) THEN {"GET", "POST"}
    ELSE IF IsItemPath(path) THEN {"GET", "PUT", "DELETE"}
    ELSE {"GET"}
IdSegment(path) == String(SubSeq(path, Len(UsersPath) + 2, Len(path)))
TableOperation(r) ==
    IF IsCollectionPath(r.path)
    THEN (IF r.method = "GET" THEN "GetUsers" ELSE "CreateUser")
    ELSE (IF r.method = "GET" THEN "GetUserByID"
          ELSE IF r.method = "PUT" THEN "UpdateUser" ELSE "DeleteUser")
IsRouted(r) ==
    /\ IsCollectionPath(r.path) \/ IsItemPath(r.path)
    /\ r.method \in TableMethods(r.path)
\* the body does not decode as the shape its operation expects
BodyRejected(r) ==
    \/ r.method = "POST" /\ (~r.body.wellformed \/ ~(r.body.members \subseteq {"name", "email"}))
    \/ r.method = "PUT" /\ ~r.body.wellformed

\* C21: a request with a known path and a method that the routing table does
\* not list for that path is answered 405 and makes no store call.
C21_OtherMethod405 ==
    \A p \in Procs :
        (/\ Answered(p)
         /\ IsKnownPath(req[p].path)
         /\ req[p].method \notin TableMethods(req[p].path))
        => resp[p].status = StatusMethodNotAllowed /\ op[p] = NoOp

C23_BadBody400 ==
    /\ [](\A p \in Procs :
            (Answered(p) /\ IsRouted(req[p]) /\ BodyRejected(req[p]))
            => resp[p].status = StatusBadRequest /\ op[p] = NoOp /\ pc[p] = "idle")
    /\ [][\A p \in Procs :
            (/\ req[p] # NoRequest /\ IsRouted(req[p]) /\ BodyRejected(req[p])
             /\ resp'[p] # resp[p])
            => users' = users /\ op' = op]_vars

\* POST /users with an unknown member was answered 400 and the store is as
\* seeded
C23_Witness ==
    \E p \in Procs :
        /\ service = "InMemoryUserService"
        /\ req[p] = [method |-> "POST", path |-> UsersPath, body |-> ExtraFieldBody]
        /\ resp[p].status = StatusBadRequest
        /\ op[p] = NoOp
        /\ users = seedData

\* the kind of an error: the type of the first AppError in its chain
KindOf(e) ==
    IF "type" \in DOMAIN e THEN e.type
    ELSE IF "type" \in DOMAIN e.wraps THEN e.wraps.type
    ELSE ""
KindStatus(kind) ==
    IF kind = ErrorTypeValidation THEN 400
    ELSE IF kind = ErrorTypeNotFound THEN 404
    ELSE IF kind = ErrorTypeConflict THEN 409
    ELSE 500

\* C24: after a store call the status of the response depends only on the
\* kind of the error returned: Validation 400, NotFound 404, Conflict 409,
\* Internal or any other kind 500; without an error a Create is answered 201,
\* a List, Get or Update 200 and a Delete 204.
C24_StatusByKind ==
    \A p \in Procs :
        (Answered(p) /\ op[p] # NoOp)
        => resp[p].status =
             IF KindOf(res[p].err) # "" \/ "text" \in DOMAIN res[p].err
             THEN KindStatus(KindOf(res[p].err))
             ELSE IF op[p].kind = "CreateUser" THEN 201
             ELSE IF op[p].kind = "DeleteUser" THEN 204
             ELSE 200

\* a service returned an AppError of a kind the handler does not know, and the
\* request was answered 500
C24_Witness ==
    /\ service = "stub"
    /\ Answered(1)
    /\ op[1] # NoOp
    /\ KindOf(res[1].err) = "UNKNOWN_ERROR"
    /\ resp[1].status = StatusInternalServerError

\* POST /users {"name":"Alice","email":"alice@example.com"}
PostAlice == [method |-> "POST", path |-> UsersPath, body |-> AliceBody]

\* C25: on a service with no user of address alice@example.com, POST /users
\* for Alice is answered 201 with her name, her address and a non-empty id;
\* the same request sent next is answered 409, and the store then holds
\* exactly one user with that address.
C25_CreateThenConflict ==
    \A p \in Procs :
        (/\ service = "InMemoryUserService"
         /\ req[p] = PostAlice /\ Answered(p)
         /\ \A q \in Procs : q < p => op[q].email # AliceEmail)
        => /\ resp[p].status = StatusCreated
           /\ resp[p].kind = "user"
           /\ resp[p].user.name = "Alice"
           /\ resp[p].user.email = AliceEmail
           /\ resp[p].user.id # ""
           /\ (p + 1 \in Procs /\ req[p + 1] = PostAlice /\ Answered(p + 1))
              => /\ resp[p + 1].status = StatusConflict
                 /\ (\A r \in Procs : r > p + 1 => req[r] = NoRequest)
                    => Cardinality({id \in DOMAIN users :
                                      users[id].email = AliceEmail}) = 1

C25_Witness ==
    /\ service = "InMemoryUserService"
    /\ req[1] = PostAlice /\ resp[1].status = StatusCreated
    /\ resp[1].user.id = "id4"
    /\ req[2] = PostAlice /\ resp[2].status = StatusConflict
    /\ {id \in DOMAIN users : users[id].email = AliceEmail} = {"id4"}

\* C26: a request whose path is none of /users, /users/{id}, /health and / is
\* answered 404 and makes no store call.
C26_UnknownPath404 ==
    \A p \in Procs :
        (Answered(p) /\ ~IsKnownPath(req[p].path))
        => resp[p].status = StatusNotFound /\ op[p] = NoOp /\ pc[p] = "idle"

\* DELETE /usersx was answered 404 without a store call
C26_Witness ==
    \E p \in Procs :
        /\ req[p] = [method |-> "DELETE", path |-> UsersPath \o <<"x">>, body |-> NoBody]
        /\ resp[p].status = StatusNotFound
        /\ op[p] = NoOp
        /\ users = seedData

\* C27: every error response has a JSON body whose "error" object carries
\* both a type and a message.
C27_ErrorBodyShape ==
    \A p \in Procs :
        (Answered(p) /\ resp[p].status >= 400)
        => /\ resp[p].contentType = JSON
           /\ resp[p].kind = "error"
           /\ {"type", "message"} \subseteq DOMAIN resp[p].error

\* the text an error value carries of its own
OwnText(e) == IF "text" \in DOMAIN e THEN {e.text} ELSE {}
CauseText(e) == IF "cause" \in DOMAIN e THEN OwnText(e.cause) ELSE {}
ResponseTexts(response) ==
    {response.error[k] : k \in DOMAIN response.error} \cup {response.text}

\* C28: when a service call returns an error with no AppError in its chain,
\* the response is 500 with the message "internal server error" and without
\* the error's text; the Cause of an Internal AppError is never in a response.
C28_NoLeak ==
    \A p \in Procs :
        (Answered(p) /\ op[p] # NoOp)
        => /\ ("text" \in DOMAIN res[p].err /\ KindOf(res[p].err) = "")
              => /\ resp[p].status = StatusInternalServerError
                 /\ resp[p].kind = "error"
                 /\ DOMAIN resp[p].error = {"message"}
                 /\ resp[p].error.message = "internal server error"
                 /\ OwnText(res[p].err) \cap ResponseTexts(resp[p]) = {}
           /\ CauseText(res[p].err) \cap ResponseTexts(resp[p]) = {}

\* the stub failed with "disk failure" and the response does not say so
C28_Witness ==
    /\ service = "stub"
    /\ Answered(1)
    /\ op[1] # NoOp
    /\ res[1].err = WrapError(NoError, "disk failure")
    /\ resp[1].status = StatusInternalServerError
    /\ resp[1].error.message = "internal server error"

\* GET /users
GetList == [method |-> "GET", path |-> UsersPath, body |-> NoBody]

\* C29: a freshly constructed in-memory service holds the three seeded users,
\* with pairwise distinct ids and pairwise distinct emails, and GET /users as
\* the first request is answered 200 with a non-empty list.
C29_SeededService ==
    /\ (\A p \in Procs : req[p] = NoRequest)
       => /\ Cardinality(DOMAIN users) = 3
          /\ {users[id].email : id \in DOMAIN users} = {JohnEmail, JaneEmail, BobEmail}
          /\ \A i, j \in DOMAIN users :
                i # j => users[i].id # users[j].id /\ users[i].email # users[j].email
    /\ (service = "InMemoryUserService" /\ req[1] = GetList /\ Answered(1))
       => /\ resp[1].status = StatusOK
          /\ resp[1].kind = "users"
          /\ Len(resp[1].list) = 3

C29_Witness ==
    /\ service = "InMemoryUserService"
    /\ req[1] = GetList
    /\ resp[1].status = StatusOK
    /\ {resp[1].list[i].email : i \in 1..Len(resp[1].list)}
          = {JohnEmail, JaneEmail, BobEmail}

\* C30: UpdateUser of a stored id changes the record only when the supplied
\* name and email are both non-empty and the email is well formed; when they
\* are not, and the email is not another user's, the whole store stays as it
\* is, updated_at included, and the call returns the unchanged record without
\* an error.
C30_UpdateAllOrNothing ==
    [][\A p \in Procs :
        (Leaves(p, "update_body") /\ op[p].id \in DOMAIN users)
        => /\ users'[op[p].id] # users[op[p].id]
              => ValidInput(op[p].name, op[p].email)
           /\ (/\ ~ValidInput(op[p].name, op[p].email)
               /\ ~\E k \in DOMAIN users \ {op[p].id} : users[k].email = op[p].email)
              => /\ users' = users
                 /\ res'[p].err = NoError
                 /\ res'[p].user = users[op[p].id]]_vars

\* an update with an empty name and a well-formed address returned John Doe's
\* record as it was
C30_Witness ==
    \E p \in Procs :
        /\ op[p].kind = "UpdateUser" /\ op[p].id = "id1"
        /\ op[p].name = "" /\ op[p].email = AliceEmail
        /\ Succeeded(p)
        /\ res[p].user = seedData["id1"]
        /\ users["id1"] = seedData["id1"]

\* C31: in every reachable state every stored user has a non-empty name and a
\* non-empty, well-formed email, whatever calls ran and however they
\* overlapped.
C31_StoredUsersValid ==
    \A id \in DOMAIN users :
        /\ users[id].name # ""
        /\ users[id].email # <<>>
        /\ isValidEmail(users[id].email)

\* a created record and an updated record are in the store, after calls with
\* malformed input were possible too
C31_Witness ==
    \E p, q \in Procs :
        /\ op[p].kind = "CreateUser" /\ Succeeded(p) /\ res[p].user.id \in DOMAIN users
        /\ op[q].kind = "UpdateUser" /\ Succeeded(q) /\ op[q].id = "id1"
        /\ "id1" \in DOMAIN users
        /\ users["id1"].email = AliceEmail
        /\ users[res[p].user.id].email = CarolEmail

\* C32: a step of a call changes the store only if the call is a CreateUser,
\* UpdateUser or DeleteUser that returns without an error at that step; so a
\* call that returns an error, and every GetUsers and GetUserByID, leaves the
\* store as it is.
C32_ErrorsChangeNothing ==
    [][\A p \in Procs :
        (pc'[p] # pc[p] /\ users' # users)
        => /\ op[p].kind \in {"CreateUser", "UpdateUser", "DeleteUser"}
           /\ pc'[p] = "done"
           /\ res'[p].err = NoError]_vars

\* one call of each failing kind has returned and the store is as seeded
C32_Witness ==
    \E p, q \in Procs :
        /\ op[p].kind = "CreateUser" /\ FailedWith(p, ErrorTypeValidation)
        /\ op[q].kind = "UpdateUser" /\ FailedWith(q, ErrorTypeConflict)
        /\ users = seedData

\* C34: a successful CreateUser adds exactly one new id and changes no record
\* that was there; a successful UpdateUser keeps the set of ids and every
\* record but its own; a successful DeleteUser removes exactly its id and
\* changes no other record; every key is the id of the record under it.
C34_OnlyTheTarget ==
    /\ [](\A id \in DOMAIN users : users[id].id = id)
    /\ [][\A p \in Procs :
            (pc'[p] # pc[p] /\ pc'[p] = "done" /\ res'[p].err = NoError)
            => /\ op[p].kind = "CreateUser"
                  => /\ res'[p].user.id \notin DOMAIN users
                     /\ DOMAIN users' = DOMAIN users \cup {res'[p].user.id}
                     /\ \A id \in DOMAIN users : users'[id] = users[id]
               /\ op[p].kind = "UpdateUser"
                  => /\ DOMAIN users' = DOMAIN users
                     /\ \A id \in DOMAIN users \ {op[p].id} : users'[id] = users[id]
               /\ op[p].kind = "DeleteUser"
                  => /\ DOMAIN users' = DOMAIN users \ {op[p].id}
                     /\ op[p].id \in DOMAIN users
                     /\ \A id \in DOMAIN users' : users'[id] = users[id]]_vars

\* id1 was deleted and id4 created; Jane Smith and Bob Johnson are untouched
C34_Witness ==
    \E p, q \in Procs :
        /\ op[p].kind = "DeleteUser" /\ op[p].id = "id1" /\ Succeeded(p)
        /\ op[q].kind = "CreateUser" /\ Succeeded(q) /\ res[q].user.id = "id4"
        /\ DOMAIN users = {"id2", "id3", "id4"}
        /\ users["id2"] = seedData["id2"]
        /\ users["id3"] = seedData["id3"]
        /\ users["id4"] = res[q].user

\* C33: when no CreateUser call overlaps another CreateUser or UpdateUser call,
\* every email is held by at most one stored user in every reachable state.
C33_SequentialUniqueEmails ==
    \A id \in DOMAIN users :
        Cardinality({k \in DOMAIN users : users[k].email = users[id].email}) = 1

\* a create stored a new address and a later update of a seed to that address
\* was refused
C33_Witness ==
    \E p, q \in Procs :
        /\ op[p].kind = "CreateUser" /\ op[p].email = AliceEmail /\ Succeeded(p)
        /\ op[q].kind = "UpdateUser" /\ op[q].id = "id1" /\ op[q].email = AliceEmail
        /\ FailedWith(q, ErrorTypeConflict)
        /\ Cardinality(DOMAIN users) = 4

\* C35: once a set of concurrent UpdateUser and DeleteUser calls has returned,
\* the store and every returned result are those of the same calls run one
\* after another in some order, with clock readings that do not decrease.
C35_WritersAtomic ==
    AllDone =>
        \E order \in RangeOrders(Procs) :
            LET stamped(p) == /\ op[p].kind = "UpdateUser"
                              /\ Succeeded(p)
                              /\ UpdateReadsClock(op[p].name, op[p].email)
                tm == [p \in Procs |-> IF stamped(p) THEN res[p].user.updated_at ELSE 0]
                out == OneAfterAnother(op, order, tm, 1, seedData, res)
            IN  /\ \A i, j \in DOMAIN order :
                      (i < j /\ stamped(order[i]) /\ stamped(order[j]))
                          => tm[order[i]] <= tm[order[j]]
                /\ out.users = users
                /\ \A p \in Procs : out.res[p] = res[p]

\* DeleteUser("id2") and UpdateUser("id1", "", jane's address) both succeeded:
\* only the order delete, update explains it
C35_Witness ==
    \E p, q \in Procs :
        /\ op[p].kind = "DeleteUser" /\ op[p].id = "id2" /\ Succeeded(p)
        /\ op[q].kind = "UpdateUser" /\ op[q].id = "id1" /\ op[q].email = JaneEmail
        /\ Succeeded(q)
        /\ users["id1"].email = JaneEmail
        /\ DOMAIN users = {"id1", "id3"}

\* C36: a goroutine that is about to take the lock holds no lock (CreateUser
\* has released the read lock of its scan before it asks for the write lock),
\* and under fair lock scheduling, whenever a call is in progress a state
\* follows in which every call that has started has returned and holds no
\* lock: as a call that has started never becomes idle again, every started
\* call eventually returns.
Holders == mutex.readers \cup mutex.writer

C36_NoDeadlock ==
    /\ [](\A p \in Procs : pc[p] \in {"waiting", "create_lock", "done"} => p \notin Holders)
    /\ (\E p \in Procs : pc[p] \notin {"idle", "done"})
           ~> (\A p \in Procs : pc[p] \in {"idle", "done"} /\ p \notin Holders)

\* a CreateUser past its scan waits for the write lock while a reader is inside
C36_Witness ==
    \E p, q \in Procs :
        /\ op[p].kind = "CreateUser" /\ pc[p] = "create_lock"
        /\ op[q].kind = "GetUsers" /\ pc[q] = "list_read"
        /\ mutex.readers = {q}
        /\ mutex.writer = {}

\* C37: once a DeleteUser(id) has succeeded, id is never a key of the store
\* again and every GetUserByID, UpdateUser and DeleteUser of that id that
\* returns afterwards returns NotFound; and a CreateUser or UpdateUser offering
\* the address the deleted user held is not refused with Conflict unless a
\* user that is in the store holds that address.
Deleted(id) ==
    \E p \in Procs : op[p].kind = "DeleteUser" /\ op[p].id = id /\ Succeeded(p)

Returns(q) == pc[q] # "done" /\ pc'[q] = "done"

C37_DeletedStaysDeleted ==
    /\ [](\A id \in ReuseIDs : Deleted(id) => id \notin DOMAIN users)
    /\ [][\A id \in ReuseIDs, q \in Procs :
             (Deleted(id) /\ Returns(q)) =>
                 /\ (op[q].kind \in {"GetUserByID", "UpdateUser", "DeleteUser"} /\ op[q].id = id)
                        => res'[q].err.type = ErrorTypeNotFound
                 /\ (/\ op[q].kind \in {"CreateUser", "UpdateUser"}
                     /\ op[q].email = seedData[id].email
                     /\ ~Holds(users, op[q].email))
                        => res'[q].err.type # ErrorTypeConflict]_vars

\* jane was deleted and her address then stored again under a new id
C37_Witness ==
    \E p, q \in Procs :
        /\ op[p].kind = "DeleteUser" /\ op[p].id = "id2" /\ Succeeded(p)
        /\ op[q].kind = "CreateUser" /\ op[q].email = JaneEmail /\ Succeeded(q)
        /\ res[q].user.id = "id4"
        /\ DOMAIN users = {"id1", "id3", "id4"}
        /\ users["id4"].email = JaneEmail

====
